---- MODULE Spec2Model ----
(***************************************************************************)
(* Arkive: the offline-first synchronisation layer.                        *)
(*                                                                         *)
(* DatabaseService (services/database) keeps one IndexedDB object store    *)
(* per collection and hands every mutation to firebaseSync.addToSyncQueue  *)
(* (the Outbox).  The model keeps the committed contents of the object     *)
(* stores, the Outbox, the remote replica, the deleteClient transaction    *)
(* and the syncFromFirebase run as state; every handler of the service is  *)
(* one action (deleteClient and syncFromFirebase are cut at the points     *)
(* where they wait for a request, a transaction or the network).           *)
(***************************************************************************)
EXTENDS Integers, Sequences, FiniteSets, TLC

\* ---------------------------------------------------------------- bounds
\* ids handed out by crypto.randomUUID() on this device: 1..MaxId
MaxId == 4
\* calls of DatabaseService handlers in one behaviour
MaxCalls == 3
\* entries the Outbox may hold
MaxQueue == 3
\* items of one array of an imported snapshot / of one pulled collection
MaxItems == 2

\* receipts a device may hold from earlier sessions
MaxReceipts == 3
\* calls in one behaviour of the specification with bulk imports
MaxBulkCalls == 2
\* greatest lastModified an installation stamps on the client they all edit
MaxStamp == 2

\* ids of records written in earlier sessions or by other installations
ForeignIds == {11, 12}
ReceiptIds == {20 + i : i \in 1..MaxReceipts}
DocumentIds == {31}
Cnics == {"c1", "c2"}
Usernames == {"admin", "bob"}

VARIABLES
  users,          \* object store 'users'         (keyPath id, unique index username)
  clients,        \* object store 'clients'       (keyPath id, unique index cnic)
  receipts,       \* object store 'receipts'      (keyPath id, index clientCnic)
  expenses,       \* object store 'expenses'
  activities,     \* object store 'activities'
  notifications,  \* object store 'notifications'
  documents,      \* object store 'documents'     (keyPath id, index clientCnic)
  outbox,         \* the sync queue: entries accepted by addToSyncQueue, oldest first
  remote,         \* the remote replica: collection -> records at collection/id
  nextId,         \* next value of crypto.randomUUID()
  nCalls,         \* handler calls made so far; also the clock behind new Date()
  tx,             \* the readwrite transaction of a running deleteClient
  sync,           \* the running syncFromFirebase or importData
  last,           \* the handler call that settled last and how it settled
  nMut,           \* store requests (add/put/delete) committed so far
  drained,        \* TRUE once the drain has acknowledged an entry
  unconfirmed,    \* committed mutations the remote has not confirmed
  peers,          \* other installations: the client record each has yet to push
  listed,         \* the clients the client list shows (Clients: useState clients)
  localStorage,   \* the item 'arkive-device-id' of localStorage; 0 when absent
  instances,      \* application instances of this installation inside getDeviceId
  database,       \* the open of the database: initPromise, schema version, parked calls
  lastSync,       \* timestamp of the record 'last_sync' of sync_metadata; 0 when absent
  exported,       \* the snapshot the last exportData returned; <<>> before the first
  firebaseCall,   \* the last call of a helper of firebaseClients: whether its
                  \* remote operation was done and how its promise settled
  auth            \* the AuthService: currentUser and its register calls in flight

stores == <<users, clients, receipts, expenses, activities, notifications, documents>>
vars == <<users, clients, receipts, expenses, activities, notifications, documents,
          outbox, remote, nextId, nCalls, tx, sync, last, nMut, drained, unconfirmed,
          peers, listed, localStorage, instances, database, lastSync, exported,
          firebaseCall, auth>>

\* what lives outside the DatabaseService: other installations and the UI
surroundings == <<peers, listed, localStorage, instances, database, lastSync, exported,
                  auth>>
ambient == <<surroundings, firebaseCall>>
\* currentUser: User | null = null
NoUser == [id |-> 0, username |-> "", role |-> "none", lastModified |-> 0]
\* nobody is logged in and no register call is in flight
NoAuth == [currentUser |-> NoUser, registering |-> {}]
\* no helper of firebaseClients has been called
NoFirebaseCall == [helper |-> "none", done |-> FALSE, returned |-> "none"]
\* a helper of firebaseClients: try { await set / remove / get } catch (err)
\* { console.error(...) }; its promise resolves on either path, whether the
\* remote operation was done or not
settled(helper, done) ==
  [helper |-> helper, done |-> done, returned |-> "resolved"]
\* the version the service opens the database with
dbVersion == 7
\* the version an earlier release of the service opened the database with
dbVersionV3 == 3

\* the object stores and indexes onupgradeneeded declares, store -> indexes
DeclaredIndexes ==
  [sync_metadata |-> {"lastSync", "deviceId"},
   users |-> {"username", "lastModified"},
   clients |-> {"cnic", "name", "lastModified"},
   receipts |-> {"clientCnic", "date", "lastModified"},
   expenses |-> {"date", "category", "lastModified"},
   activities |-> {"userId", "timestamp"},
   notifications |-> {"createdAt"},
   documents |-> {"clientCnic", "fileType", "uploadedAt", "lastModified"},
   employees |-> {"employeeId", "username", "email", "department", "status",
                  "lastModified"},
   attendance |-> {"employeeId", "date", "status", "lastModified"}]

\* what the onupgradeneeded of version 3 declared
DeclaredIndexesV3 ==
  [users |-> {"username"},
   clients |-> {"cnic", "name"},
   receipts |-> {"clientCnic", "date"},
   expenses |-> {"date", "category"},
   activities |-> {"userId", "timestamp"},
   notifications |-> {"createdAt"},
   documents |-> {"clientCnic", "fileType", "uploadedAt"}]

NoStores == [s \in {} |-> {}]

\* the body of an onupgradeneeded: 'whiteboards' is deleted, and a store is
\* created with its indexes only if (!db.objectStoreNames.contains(store))
upgrade(schema, declared) ==
  [s \in (DOMAIN schema \ {"whiteboards"}) \cup DOMAIN declared |->
     IF s \in DOMAIN schema THEN schema[s] ELSE declared[s]]

onupgradeneeded(schema) == upgrade(schema, DeclaredIndexes)

\* the database once indexedDB.open has succeeded: this.db is set, init resolved
Opened == [initPromise |-> "fulfilled", version |-> dbVersion, parked |-> {},
           schema |-> onupgradeneeded(NoStores)]
\* what the service keeps beside the seven stores
housekeeping == <<database, lastSync, exported>>
\* an opened database, never synchronised, never exported
NoHousekeeping == database = Opened /\ lastSync = 0 /\ exported = <<>>
\* no other installation, an empty client list, one application instance
NoAmbient ==
  /\ peers = <<>> /\ listed = {} /\ localStorage = 0 /\ instances = <<>>
  /\ NoHousekeeping /\ firebaseCall = NoFirebaseCall /\ auth = NoAuth

\* new Date(): the call number serves as the clock
Now == nCalls + 1

\* ------------------------------------------------- IndexedDB object stores
\* keyPath 'id': no other record of the store holds the key
KeyFree(S, id) == \A r \in S : r.id # id

\* index 'username' of 'users', { unique: true }
UsernameUnique(S, rec) == \A r \in S : r.id # rec.id => r.username # rec.username

\* an index created without { unique: true } admits every record
NotUnique(S, rec) == TRUE

\* index 'cnic' of 'clients', { unique: true }
CnicUnique(S, rec) == \A r \in S : r.id # rec.id => r.cnic # rec.cnic

\* store.put(rec): insert or replace the record under rec.id
Put(S, rec) == {r \in S : r.id # rec.id} \cup {rec}

\* store.delete(id)
Delete(S, id) == {r \in S : r.id # id}

\* ------------------------------------------------------------- the Outbox
\* firebaseSync.addToSyncQueue(entry): the returned promise resolves once the
\* entry is queued, or rejects and queues nothing
\* how a call that hands an entry to the queue and then issues its write can
\* go: the entry is queued or not, and the process may stop after the entry
\* was queued and before the write is issued
Outcomes == {[enq |-> "resolved", crash |-> FALSE],
             [enq |-> "rejected", crash |-> FALSE],
             [enq |-> "resolved", crash |-> TRUE]}
addToSyncQueue(q, type, store, data, enq) ==
  IF enq = "resolved" THEN Append(q, [type |-> type, store |-> store, data |-> data]) ELSE q

Mutation(type, store, id) == [type |-> type, store |-> store, id |-> id]

\* an ensureInitialized that does not wait for the open to finish
ensureInitializedUnawaited ==
  IF database.initPromise = "rejected" THEN "throws" ELSE "continues"

\* an ensureInitialized that swallows the rejection of the open
ensureInitializedSwallowed ==
  IF database.initPromise = "pending" THEN "waits" ELSE "continues"

\* await this.initPromise: the call goes on once the open has succeeded, throws
\* when the open failed, and waits while the open is in progress
ensureInitialized ==
  CASE database.initPromise = "fulfilled" -> "continues"
    [] database.initPromise = "rejected" -> "throws"
    [] OTHER -> "waits"

\* a handler call gets past ensureInitialized only after a successful open; it
\* may start only while the call budget and the queue allow it
CanCall == ensureInitialized = "continues" /\ nCalls < MaxCalls /\ Len(outbox) < MaxQueue

Settled(op, res) == [call |-> nCalls + 1, op |-> op, res |-> res]

\* the stores a running deleteClient transaction holds are 'clients' and
\* 'receipts'; requests of other transactions on them wait until it is over
TxIdle == tx.pc \in {"idle", "committed"}

Idle == [pc |-> "idle", id |-> 0, cnic |-> "", clients |-> {}, receipts |-> {}, found |-> FALSE]
NoSync == [op |-> "none", pc |-> "idle", data |-> <<>>, cleared |-> 0, imported |-> {},
           failed |-> FALSE, before |-> <<>>, call |-> 0]

\* the remote replica holds nothing
NoRecords == [users |-> {}, clients |-> {}, receipts |-> {}, expenses |-> {},
              activities |-> {}, notifications |-> {}, documents |-> {}]

Init ==
  /\ users = {} /\ clients = {} /\ receipts = {} /\ expenses = {}
  /\ activities = {} /\ notifications = {} /\ documents = {}
  /\ outbox = <<>>
  /\ remote = NoRecords
  /\ nextId = 1
  /\ nCalls = 0
  /\ tx = Idle
  /\ sync = NoSync
  /\ last = [call |-> 0, op |-> "init", res |-> "resolved"]
  /\ nMut = 0
  /\ drained = FALSE
  /\ unconfirmed = {}
  /\ NoAmbient

\* ------------------------------------------------------- handler results
\* how a handler that issues one write settles: crash = the process stops
\* after the entry was handed to the queue and before the write is issued
Result(crash, ok) == IF crash THEN "crashed" ELSE IF ok THEN "resolved" ELSE "rejected"

\* bookkeeping shared by every handler call: the call counter, the result seen
\* by the caller, and the mutations the call committed
Finish(op, res, muts) ==
  /\ nCalls' = nCalls + 1
  /\ last' = Settled(op, res)
  /\ nMut' = nMut + Cardinality(muts)
  /\ unconfirmed' = unconfirmed \cup muts

\* ids a caller can pass to update/delete: ids this device handed out and ids
\* of records that arrived from elsewhere
IdsOf(S) == {r.id : r \in S}
KnownIds == (1..(nextId - 1)) \cup IdsOf(users) \cup IdsOf(clients) \cup IdsOf(receipts)
            \cup IdsOf(documents) \cup IdsOf(remote.clients) \cup IdsOf(remote.users)

\* ---------------------------------------------------------- user handlers
\* createUser: the entry is handed to the queue first, then store.add runs
createUser(username, enq, crash) ==
  LET newUser == [id |-> nextId, username |-> username, lastModified |-> Now]
      ok == ~crash /\ KeyFree(users, newUser.id) /\ UsernameUnique(users, newUser)
  IN /\ CanCall /\ nextId <= MaxId
     /\ nextId' = nextId + 1
     /\ outbox' = addToSyncQueue(outbox, "create", "users", newUser, enq)
     /\ users' = IF ok THEN users \cup {newUser} ELSE users
     /\ Finish("createUser", Result(crash, ok),
               IF ok THEN {Mutation("create", "users", newUser.id)} ELSE {})
     /\ UNCHANGED <<clients, receipts, expenses, activities, notifications, documents,
                    remote, tx, sync, drained, ambient>>

updateUser(user, enq, crash) ==
  LET updatedUser == [user EXCEPT !.lastModified = Now]
      ok == ~crash /\ UsernameUnique(users, updatedUser)
  IN /\ CanCall
     /\ outbox' = addToSyncQueue(outbox, "update", "users", updatedUser, enq)
     /\ users' = IF ok THEN Put(users, updatedUser) ELSE users
     /\ Finish("updateUser", Result(crash, ok),
               IF ok THEN {Mutation("update", "users", user.id)} ELSE {})
     /\ UNCHANGED <<clients, receipts, expenses, activities, notifications, documents,
                    remote, nextId, tx, sync, drained, ambient>>

deleteUser(userId, enq, crash) ==
  /\ CanCall
  /\ outbox' = addToSyncQueue(outbox, "delete", "users", [id |-> userId], enq)
  /\ users' = IF crash THEN users ELSE Delete(users, userId)
  /\ Finish("deleteUser", Result(crash, TRUE),
            IF crash THEN {} ELSE {Mutation("delete", "users", userId)})
  /\ UNCHANGED <<clients, receipts, expenses, activities, notifications, documents,
                 remote, nextId, tx, sync, drained, ambient>>

\* -------------------------------------------------------- client handlers
\* two adds issued in transactions of their own: each is kept when it succeeds
OwnTransaction(mine, other) == mine

\* two adds issued in one transaction: the error of one aborts the
\* transaction, so each is kept only when both succeed
SameTransaction(mine, other) == mine /\ other

\* a createClient that writes its two records and hands nothing to the queue
createClientUnqueued(cnic, enq, crash) ==
  LET newClient == [id |-> nextId, cnic |-> cnic, lastModified |-> Now]
      notification == [id |-> nextId + 1, read |-> FALSE]
      ok == /\ ~crash /\ KeyFree(clients, newClient.id) /\ CnicUnique(clients, newClient)
            /\ KeyFree(notifications, notification.id)
  IN /\ CanCall /\ TxIdle /\ nextId + 1 <= MaxId
     /\ nextId' = nextId + 2
     /\ clients' = IF ok THEN clients \cup {newClient} ELSE clients
     /\ notifications' = IF ok THEN notifications \cup {notification} ELSE notifications
     /\ Finish("createClient", Result(crash, ok),
               IF ok THEN {Mutation("create", "clients", newClient.id),
                           Mutation("create", "notifications", notification.id)}
                     ELSE {})
     /\ UNCHANGED <<users, receipts, expenses, activities, documents,
                    outbox, remote, tx, sync, drained, ambient>>

\* createClient: one readwrite transaction over 'clients' and 'notifications'
createClient(cnic, enq, crash) ==
  LET newClient == [id |-> nextId, cnic |-> cnic, lastModified |-> Now]
      notification == [id |-> nextId + 1, read |-> FALSE]
      clientAdded == KeyFree(clients, newClient.id) /\ CnicUnique(clients, newClient)
      notificationAdded == KeyFree(notifications, notification.id)
      ok == ~crash /\ clientAdded /\ notificationAdded
      muts == {Mutation("create", "clients", newClient.id) : x \in {1} \cap
                 (IF ~crash /\ SameTransaction(clientAdded, notificationAdded) THEN {1} ELSE {})}
              \cup {Mutation("create", "notifications", notification.id) : x \in {1} \cap
                 (IF ~crash /\ SameTransaction(notificationAdded, clientAdded) THEN {1} ELSE {})}
  IN /\ CanCall /\ TxIdle /\ nextId + 1 <= MaxId
     /\ nextId' = nextId + 2
     /\ outbox' = addToSyncQueue(outbox, "create", "clients", newClient, enq)
     /\ clients' = IF ~crash /\ SameTransaction(clientAdded, notificationAdded)
                     THEN clients \cup {newClient} ELSE clients
     /\ notifications' = IF ~crash /\ SameTransaction(notificationAdded, clientAdded)
                           THEN notifications \cup {notification} ELSE notifications
     /\ Finish("createClient", Result(crash, ok), muts)
     /\ UNCHANGED <<users, receipts, expenses, activities, documents,
                    remote, tx, sync, drained, ambient>>

updateClient(client, enq, crash) ==
  LET updatedClient == [client EXCEPT !.lastModified = Now]
      ok == ~crash /\ CnicUnique(clients, updatedClient)
  IN /\ CanCall /\ TxIdle
     /\ outbox' = addToSyncQueue(outbox, "update", "clients", updatedClient, enq)
     /\ clients' = IF ok THEN Put(clients, updatedClient) ELSE clients
     /\ Finish("updateClient", Result(crash, ok),
               IF ok THEN {Mutation("update", "clients", client.id)} ELSE {})
     /\ UNCHANGED <<users, receipts, expenses, activities, notifications, documents,
                    remote, nextId, tx, sync, drained, ambient>>

\* ------------------------------------------------------- receipt handlers
\* createReceipt: one readwrite transaction over 'receipts' and 'notifications'
createReceipt(clientCnic, enq, crash) ==
  LET newReceipt == [id |-> nextId, clientCnic |-> clientCnic, lastModified |-> Now]
      notification == [id |-> nextId + 1, read |-> FALSE]
      ok == ~crash /\ SameTransaction(KeyFree(receipts, newReceipt.id),
                                      KeyFree(notifications, notification.id))
  IN /\ CanCall /\ TxIdle /\ nextId + 1 <= MaxId
     /\ nextId' = nextId + 2
     /\ outbox' = addToSyncQueue(outbox, "create", "receipts", newReceipt, enq)
     /\ receipts' = IF ok THEN receipts \cup {newReceipt} ELSE receipts
     /\ notifications' = IF ok THEN notifications \cup {notification} ELSE notifications
     /\ Finish("createReceipt", Result(crash, ok),
               IF ok THEN {Mutation("create", "receipts", newReceipt.id),
                           Mutation("create", "notifications", notification.id)}
                     ELSE {})
     /\ UNCHANGED <<users, clients, expenses, activities, documents,
                    remote, tx, sync, drained, ambient>>

updateReceipt(receipt, enq, crash) ==
  LET updatedReceipt == [receipt EXCEPT !.lastModified = Now]
  IN /\ CanCall /\ TxIdle
     /\ outbox' = addToSyncQueue(outbox, "update", "receipts", updatedReceipt, enq)
     /\ receipts' = IF crash THEN receipts ELSE Put(receipts, updatedReceipt)
     /\ Finish("updateReceipt", Result(crash, TRUE),
               IF crash THEN {} ELSE {Mutation("update", "receipts", receipt.id)})
     /\ UNCHANGED <<users, clients, expenses, activities, notifications, documents,
                    remote, nextId, tx, sync, drained, ambient>>

deleteReceipt(id, enq, crash) ==
  /\ CanCall /\ TxIdle
  /\ outbox' = addToSyncQueue(outbox, "delete", "receipts", [id |-> id], enq)
  /\ receipts' = IF crash THEN receipts ELSE Delete(receipts, id)
  /\ Finish("deleteReceipt", Result(crash, TRUE),
            IF crash THEN {} ELSE {Mutation("delete", "receipts", id)})
  /\ UNCHANGED <<users, clients, expenses, activities, notifications, documents,
                 remote, nextId, tx, sync, drained, ambient>>

\* ------------------------------------------------------- expense handlers
createExpense(enq, crash) ==
  LET newExpense == [id |-> nextId, lastModified |-> Now]
      ok == ~crash /\ KeyFree(expenses, newExpense.id)
  IN /\ CanCall /\ nextId <= MaxId
     /\ nextId' = nextId + 1
     /\ outbox' = addToSyncQueue(outbox, "create", "expenses", newExpense, enq)
     /\ expenses' = IF ok THEN expenses \cup {newExpense} ELSE expenses
     /\ Finish("createExpense", Result(crash, ok),
               IF ok THEN {Mutation("create", "expenses", newExpense.id)} ELSE {})
     /\ UNCHANGED <<users, clients, receipts, activities, notifications, documents,
                    remote, tx, sync, drained, ambient>>

updateExpense(id, enq, crash) ==
  LET updatedExpense == [id |-> id, lastModified |-> Now]
  IN /\ CanCall
     /\ outbox' = addToSyncQueue(outbox, "update", "expenses", updatedExpense, enq)
     /\ expenses' = IF crash THEN expenses ELSE Put(expenses, updatedExpense)
     /\ Finish("updateExpense", Result(crash, TRUE),
               IF crash THEN {} ELSE {Mutation("update", "expenses", id)})
     /\ UNCHANGED <<users, clients, receipts, activities, notifications, documents,
                    remote, nextId, tx, sync, drained, ambient>>

deleteExpense(id, enq, crash) ==
  /\ CanCall
  /\ outbox' = addToSyncQueue(outbox, "delete", "expenses", [id |-> id], enq)
  /\ expenses' = IF crash THEN expenses ELSE Delete(expenses, id)
  /\ Finish("deleteExpense", Result(crash, TRUE),
            IF crash THEN {} ELSE {Mutation("delete", "expenses", id)})
  /\ UNCHANGED <<users, clients, receipts, activities, notifications, documents,
                 remote, nextId, tx, sync, drained, ambient>>

\* -------------------------------------- activity and notification handlers
\* createActivity, createNotification and markNotificationAsRead write the
\* store and never call addToSyncQueue
createActivity ==
  LET newActivity == [id |-> nextId]
      ok == KeyFree(activities, newActivity.id)
  IN /\ CanCall /\ nextId <= MaxId
     /\ nextId' = nextId + 1
     /\ activities' = IF ok THEN activities \cup {newActivity} ELSE activities
     /\ Finish("createActivity", Result(FALSE, ok),
               IF ok THEN {Mutation("create", "activities", newActivity.id)} ELSE {})
     /\ UNCHANGED <<users, clients, receipts, expenses, notifications, documents,
                    outbox, remote, tx, sync, drained, ambient>>

createNotification ==
  LET newNotification == [id |-> nextId, read |-> FALSE]
      ok == KeyFree(notifications, newNotification.id)
  IN /\ CanCall /\ nextId <= MaxId
     /\ nextId' = nextId + 1
     /\ notifications' = IF ok THEN notifications \cup {newNotification} ELSE notifications
     /\ Finish("createNotification", Result(FALSE, ok),
               IF ok THEN {Mutation("create", "notifications", newNotification.id)} ELSE {})
     /\ UNCHANGED <<users, clients, receipts, expenses, activities, documents,
                    outbox, remote, tx, sync, drained, ambient>>

markNotificationAsRead(id) ==
  LET found == \E n \in notifications : n.id = id
  IN /\ CanCall
     /\ notifications' = IF found THEN Put(notifications, [id |-> id, read |-> TRUE])
                                  ELSE notifications
     /\ Finish("markNotificationAsRead", "resolved",
               IF found THEN {Mutation("update", "notifications", id)} ELSE {})
     /\ UNCHANGED <<users, clients, receipts, expenses, activities, documents,
                    outbox, remote, nextId, tx, sync, drained, ambient>>

\* ------------------------------------------------------ document handlers
createDocument(clientCnic, enq, crash) ==
  LET newDocument == [id |-> nextId, clientCnic |-> clientCnic, lastModified |-> Now]
      ok == ~crash /\ KeyFree(documents, newDocument.id)
  IN /\ CanCall /\ nextId <= MaxId
     /\ nextId' = nextId + 1
     /\ outbox' = addToSyncQueue(outbox, "create", "documents", newDocument, enq)
     /\ documents' = IF ok THEN documents \cup {newDocument} ELSE documents
     /\ Finish("createDocument", Result(crash, ok),
               IF ok THEN {Mutation("create", "documents", newDocument.id)} ELSE {})
     /\ UNCHANGED <<users, clients, receipts, expenses, activities, notifications,
                    remote, tx, sync, drained, ambient>>

updateDocument(document, enq, crash) ==
  LET updatedDocument == [document EXCEPT !.lastModified = Now]
  IN /\ CanCall
     /\ outbox' = addToSyncQueue(outbox, "update", "documents", updatedDocument, enq)
     /\ documents' = IF crash THEN documents ELSE Put(documents, updatedDocument)
     /\ Finish("updateDocument", Result(crash, TRUE),
               IF crash THEN {} ELSE {Mutation("update", "documents", document.id)})
     /\ UNCHANGED <<users, clients, receipts, expenses, activities, notifications,
                    remote, nextId, tx, sync, drained, ambient>>

deleteDocument(id, enq, crash) ==
  /\ CanCall
  /\ outbox' = addToSyncQueue(outbox, "delete", "documents", [id |-> id], enq)
  /\ documents' = IF crash THEN documents ELSE Delete(documents, id)
  /\ Finish("deleteDocument", Result(crash, TRUE),
            IF crash THEN {} ELSE {Mutation("delete", "documents", id)})
  /\ UNCHANGED <<users, clients, receipts, expenses, activities, notifications,
                 remote, nextId, tx, sync, drained, ambient>>

\* how the promise of addToSyncQueue can settle for a caller that waits for
\* it inside a request callback: within the callback's microtasks (resolved or
\* rejected), later, when the caller's transaction is over, or never (the
\* queue waits for a remote that cannot be reached)
SettleOutcomes == {"resolved", "rejected", "late", "never"}

\* logDocumentAccess: store.get, then addToSyncQueue(...).catch(console.warn)
\* .finally(() => store.put(document) ...): the put is issued when the promise
\* of the queue has settled.  Issued after the transaction is over, store.put
\* throws inside the finally callback: nothing is written and neither resolve
\* nor reject is ever called; while the promise has not settled the put is not
\* issued at all
logDocumentAccess(documentId, enq) ==
  LET found == ~KeyFree(documents, documentId)
      document == CHOOSE d \in documents : d.id = documentId
      logged == [document EXCEPT !.lastModified = Now]
      put == found /\ enq \in {"resolved", "rejected"}
  IN /\ CanCall
     /\ outbox' = IF found
                    THEN addToSyncQueue(outbox, "update", "documents", logged,
                                        IF enq \in {"resolved", "late"}
                                          THEN "resolved" ELSE "rejected")
                    ELSE outbox
     /\ documents' = IF put THEN Put(documents, logged) ELSE documents
     /\ Finish("logDocumentAccess",
               IF found /\ ~put THEN "pending" ELSE "resolved",
               IF put THEN {Mutation("update", "documents", documentId)} ELSE {})
     /\ UNCHANGED <<users, clients, receipts, expenses, activities, notifications,
                    remote, nextId, tx, sync, drained, ambient>>

\* ---------------------------------------------------------- deleteClient
\* a cursor opened without a key range visits every receipt
CursorOverAll(rs, cnic) == rs

\* receiptIndex.openCursor(client.cnic): the receipts the cursor visits
CursorRange(rs, cnic) == {r \in rs : r.clientCnic = cnic}

\* deleteClient(id) opens one readwrite transaction over 'clients' and
\* 'receipts'; tx.clients and tx.receipts are the contents the transaction
\* sees, the stores themselves change when it commits
deleteClientBegin(id) ==
  /\ CanCall /\ tx.pc = "idle"
  /\ nCalls' = nCalls + 1
  /\ tx' = [pc |-> "get", id |-> id, cnic |-> "", clients |-> clients,
            receipts |-> receipts, found |-> FALSE]
  /\ UNCHANGED <<stores, outbox, remote, nextId, sync, last, nMut, drained, unconfirmed, ambient>>

\* a deleteClient that deletes what the cursor over an undefined cnic finds
\* when there is no such client: every receipt
deleteClientGetUnguarded ==
  /\ tx.pc = "get"
  /\ IF \E c \in tx.clients : c.id = tx.id
       THEN /\ tx' = [tx EXCEPT !.pc = "cursor", !.found = TRUE,
                                !.cnic = (CHOOSE c \in tx.clients : c.id = tx.id).cnic]
            /\ last' = last
       ELSE /\ tx' = [tx EXCEPT !.pc = "resolved", !.receipts = {}]
            /\ last' = [call |-> nCalls, op |-> "deleteClient", res |-> "resolved"]
  /\ UNCHANGED <<stores, outbox, remote, nextId, nCalls, sync, nMut, drained, unconfirmed, ambient>>

\* getClientRequest.onsuccess: open the cursor, or resolve when there is no
\* such client
deleteClientGet ==
  /\ tx.pc = "get"
  /\ IF \E c \in tx.clients : c.id = tx.id
       THEN /\ tx' = [tx EXCEPT !.pc = "cursor", !.found = TRUE,
                                !.cnic = (CHOOSE c \in tx.clients : c.id = tx.id).cnic]
            /\ last' = last
       ELSE /\ tx' = [tx EXCEPT !.pc = "resolved"]
            /\ last' = [call |-> nCalls, op |-> "deleteClient", res |-> "resolved"]
  /\ UNCHANGED <<stores, outbox, remote, nextId, nCalls, sync, nMut, drained, unconfirmed, ambient>>

\* receiptRequest.onsuccess: cursor.delete() and cursor.continue() while the
\* cursor points at a receipt; after the last one clientStore.delete(id),
\* whose onsuccess resolves the call
deleteClientCursor ==
  /\ tx.pc = "cursor"
  /\ LET range == CursorRange(tx.receipts, tx.cnic)
     IN IF range # {}
          THEN /\ \E r \in range :
                    /\ \A o \in range : r.id <= o.id
                    /\ tx' = [tx EXCEPT !.receipts = tx.receipts \ {r}]
               /\ last' = last
          ELSE /\ tx' = [tx EXCEPT !.pc = "resolved", !.clients = Delete(tx.clients, tx.id)]
               /\ last' = [call |-> nCalls, op |-> "deleteClient", res |-> "resolved"]
  /\ UNCHANGED <<stores, outbox, remote, nextId, nCalls, sync, nMut, drained, unconfirmed, ambient>>

\* the transaction commits once no request is pending
deleteClientCommit ==
  /\ tx.pc = "resolved"
  /\ clients' = tx.clients
  /\ receipts' = tx.receipts
  /\ LET muts == {Mutation("delete", "clients", c.id) : c \in clients \ tx.clients}
                 \cup {Mutation("delete", "receipts", r.id) : r \in receipts \ tx.receipts}
     IN /\ nMut' = nMut + Cardinality(muts)
        /\ unconfirmed' = unconfirmed \cup muts
  /\ tx' = [tx EXCEPT !.pc = "committed"]
  /\ UNCHANGED <<users, expenses, activities, notifications, documents,
                 outbox, remote, nextId, nCalls, sync, last, drained, ambient>>

\* the process is interrupted while the transaction is open: IndexedDB
\* discards everything the transaction did
deleteClientAbort ==
  /\ tx.pc \in {"get", "cursor", "resolved"}
  /\ tx' = Idle
  /\ last' = IF tx.pc = "resolved" THEN last
             ELSE [call |-> nCalls, op |-> "deleteClient", res |-> "crashed"]
  /\ UNCHANGED <<stores, outbox, remote, nextId, nCalls, sync, nMut, drained, unconfirmed, ambient>>

\* Clients.handleDelete, after db.deleteClient resolved: deleteClientFromFirebase
\* removes clients/<id> at the remote; a failure is logged and swallowed
deleteClientFromFirebase(ok) ==
  /\ tx.pc = "committed"
  /\ remote' = IF ok THEN [remote EXCEPT !.clients = Delete(@, tx.id)] ELSE remote
  /\ unconfirmed' = IF ok THEN unconfirmed \ {Mutation("delete", "clients", tx.id)}
                          ELSE unconfirmed
  /\ tx' = Idle
  /\ firebaseCall' = settled("deleteClientFromFirebase", ok)
  /\ UNCHANGED <<stores, outbox, nextId, nCalls, sync, last, nMut, drained, surroundings>>

\* --------------------------------------------- importData, syncFromFirebase
\* the stores importData and syncFromFirebase clear and fill, in the order of
\* their loops (syncFromFirebase also clears and fills 'employees' and
\* 'attendance', which no handler of the service writes)
BulkStores == <<"users", "clients", "receipts", "expenses", "activities",
                "notifications", "documents">>

StoreOf(name) ==
  CASE name = "users" -> users
    [] name = "clients" -> clients
    [] name = "receipts" -> receipts
    [] name = "expenses" -> expenses
    [] name = "activities" -> activities
    [] name = "notifications" -> notifications
    [] name = "documents" -> documents

\* the store name gets the contents S, every other store keeps its own
SetStore(name, S) ==
  /\ users' = IF name = "users" THEN S ELSE users
  /\ clients' = IF name = "clients" THEN S ELSE clients
  /\ receipts' = IF name = "receipts" THEN S ELSE receipts
  /\ expenses' = IF name = "expenses" THEN S ELSE expenses
  /\ activities' = IF name = "activities" THEN S ELSE activities
  /\ notifications' = IF name = "notifications" THEN S ELSE notifications
  /\ documents' = IF name = "documents" THEN S ELSE documents

\* the unique index of a store admits rec next to the records of S
IndexAdmits(name, S, rec) ==
  CASE name = "users" -> UsernameUnique(S, rec)
    [] name = "clients" -> CnicUnique(S, rec)
    [] OTHER -> TRUE

\* store.add(item) for every item, all in the one transaction importStore
\* opened: the adds succeed when no key and no unique index value occurs
\* twice among the store's records and the items
AllAddable(name, S, items) ==
  /\ \A r \in items : KeyFree(S, r.id) /\ IndexAdmits(name, S, r)
  /\ \A r1, r2 \in items : r1 # r2 => r1.id # r2.id /\ IndexAdmits(name, {r1}, r2)

\* importStore(name, items): a rejected add is an unhandled request error, which
\* aborts the transaction and with it the adds made before
importStore(name, S, items) == IF AllAddable(name, S, items) THEN S \cup items ELSE S

\* a syncFromFirebase that runs its clearing loop before it fetches: a failed
\* pull rejects the call with every store cleared
syncClearsBeforePull(pulled) ==
  /\ CanCall /\ sync.pc = "idle" /\ TxIdle
  /\ nCalls' = nCalls + 1
  /\ users' = {} /\ clients' = {} /\ receipts' = {} /\ expenses' = {}
  /\ activities' = {} /\ notifications' = {} /\ documents' = {}
  /\ IF pulled
       THEN /\ sync' = [op |-> "syncFromFirebase", pc |-> "import", data |-> remote,
                        cleared |-> Len(BulkStores), imported |-> {}, failed |-> FALSE,
                        before |-> stores, call |-> nCalls + 1]
            /\ last' = last
       ELSE /\ sync' = sync
            /\ last' = Settled("syncFromFirebase", "rejected")
  /\ UNCHANGED <<outbox, remote, nextId, tx, nMut, drained, unconfirmed, ambient>>

\* syncFromFirebase: Promise.all of getStoreFromFirebase for every store; a
\* failed pull rejects the call before any store is touched
syncFromFirebase(pulled) ==
  /\ CanCall /\ sync.pc = "idle"
  /\ nCalls' = nCalls + 1
  /\ IF pulled
       THEN /\ sync' = [op |-> "syncFromFirebase", pc |-> "clear", data |-> remote,
                        cleared |-> 0, imported |-> {}, failed |-> FALSE,
                        before |-> stores, call |-> nCalls + 1]
            /\ last' = last
       ELSE /\ sync' = sync
            /\ last' = Settled("syncFromFirebase", "rejected")
  /\ UNCHANGED <<stores, outbox, remote, nextId, tx, nMut, drained, unconfirmed, ambient>>

\* an importData that reports the import to the sync queue
importDataQueued(data) ==
  /\ CanCall /\ sync.pc = "idle"
  /\ nCalls' = nCalls + 1
  /\ sync' = [op |-> "importData", pc |-> "clear", data |-> data,
              cleared |-> 0, imported |-> {}, failed |-> FALSE,
              before |-> stores, call |-> nCalls + 1]
  /\ outbox' = Append(outbox, [type |-> "import", store |-> "all", data |-> data])
  /\ UNCHANGED <<stores, remote, nextId, tx, last, nMut, drained, unconfirmed, ambient>>

\* importData(jsonData): JSON.parse, then the same two loops
importData(data) ==
  /\ CanCall /\ sync.pc = "idle"
  /\ nCalls' = nCalls + 1
  /\ sync' = [op |-> "importData", pc |-> "clear", data |-> data,
              cleared |-> 0, imported |-> {}, failed |-> FALSE,
                        before |-> stores, call |-> nCalls + 1]
  /\ UNCHANGED <<stores, outbox, remote, nextId, tx, last, nMut, drained, unconfirmed, ambient>>

\* one round of the clearing loop: store.clear() in a transaction of its own
clearStore ==
  /\ sync.pc = "clear"
  /\ LET name == BulkStores[sync.cleared + 1]
     IN /\ name \in {"clients", "receipts"} => TxIdle
        /\ SetStore(name, {})
  /\ sync' = [sync EXCEPT !.cleared = @ + 1,
                          !.pc = IF sync.cleared + 1 = Len(BulkStores) THEN "import" ELSE "clear"]
  /\ UNCHANGED <<outbox, remote, nextId, nCalls, tx, last, nMut, drained, unconfirmed, ambient>>

\* the store whose importStore completes next.  importData awaits one
\* importStore after the other; syncFromFirebase starts them in the same order
\* under Promise.all, each in a transaction over a store of its own, so the
\* order in which they complete changes the contents of no store
NextImports == {BulkStores[Cardinality(sync.imported) + 1]}

\* importStore(name, items) of the running call.  syncFromFirebase rejects with
\* the first failing add; importData logs the failure and goes on
bulkImport(name) ==
  /\ sync.pc = "import" /\ name \in NextImports
  /\ name \in {"clients", "receipts"} => TxIdle
  /\ LET S == StoreOf(name)
         items == sync.data[name]
         ok == AllAddable(name, S, items)
         done == sync.imported \cup {name} = {BulkStores[i] : i \in 1..Len(BulkStores)}
         failed == sync.failed \/ ~ok
     IN /\ SetStore(name, importStore(name, S, items))
        /\ sync' = IF done THEN NoSync
                   ELSE [sync EXCEPT !.imported = @ \cup {name}, !.failed = failed]
        /\ last' = IF sync.op = "importData"
                     THEN IF done THEN [call |-> sync.call, op |-> "importData", res |-> "resolved"]
                          ELSE last
                   ELSE IF ~ok /\ ~sync.failed
                     THEN [call |-> sync.call, op |-> "syncFromFirebase", res |-> "rejected"]
                   ELSE IF done /\ ~failed
                     THEN [call |-> sync.call, op |-> "syncFromFirebase", res |-> "resolved"]
                   ELSE last
  /\ UNCHANGED <<outbox, remote, nextId, nCalls, tx, nMut, drained, unconfirmed, ambient>>

\* ------------------------------------------------------ incremental drain
\* a push on which the remote stamps the record with a time of its own
PushStamped(r, e) ==
  IF e.type = "delete" THEN [r EXCEPT ![e.store] = Delete(@, e.data.id)]
  ELSE [r EXCEPT ![e.store] =
          Put(@, [e.data EXCEPT !.lastModified =
                    1 + Cardinality({x \in r[e.store] : x.id = e.data.id})])]

\* the remote write of one entry: create and update set collection/id,
\* delete removes it
Push(r, e) ==
  IF e.type = "delete" THEN [r EXCEPT ![e.store] = Delete(@, e.data.id)]
  ELSE [r EXCEPT ![e.store] = Put(@, e.data)]

\* one round of the drain: push the oldest entry; acknowledge it when the
\* remote confirmed, leave it queued otherwise
Drain(ok) ==
  /\ outbox # <<>>
  /\ LET e == Head(outbox)
     IN IF ok
          THEN /\ remote' = Push(remote, e)
               /\ outbox' = Tail(outbox)
               /\ drained' = TRUE
               /\ unconfirmed' = unconfirmed \ {Mutation(e.type, e.store, e.data.id)}
          ELSE UNCHANGED <<remote, outbox, drained, unconfirmed>>
  /\ UNCHANGED <<stores, nextId, nCalls, tx, sync, last, nMut, ambient>>

\* --------------------------------------------------------- specifications
UserOps ==
  \/ \E u \in Usernames, o \in Outcomes : createUser(u, o.enq, o.crash)
  \/ \E id \in KnownIds, u \in Usernames, o \in Outcomes :
        updateUser([id |-> id, username |-> u, lastModified |-> 0], o.enq, o.crash)
  \/ \E id \in KnownIds, o \in Outcomes : deleteUser(id, o.enq, o.crash)

ClientOps ==
  \/ \E c \in Cnics, o \in Outcomes : createClient(c, o.enq, o.crash)
  \/ \E id \in KnownIds, c \in Cnics, o \in Outcomes :
        updateClient([id |-> id, cnic |-> c, lastModified |-> 0], o.enq, o.crash)

ReceiptOps ==
  \/ \E c \in Cnics, o \in Outcomes : createReceipt(c, o.enq, o.crash)
  \/ \E id \in KnownIds, c \in Cnics, o \in Outcomes :
        updateReceipt([id |-> id, clientCnic |-> c, lastModified |-> 0], o.enq, o.crash)
  \/ \E id \in KnownIds, o \in Outcomes : deleteReceipt(id, o.enq, o.crash)

ExpenseOps ==
  \/ \E o \in Outcomes : createExpense(o.enq, o.crash)
  \/ \E id \in KnownIds, o \in Outcomes : updateExpense(id, o.enq, o.crash)
  \/ \E id \in KnownIds, o \in Outcomes : deleteExpense(id, o.enq, o.crash)

NotificationOps ==
  \/ createActivity
  \/ createNotification
  \/ \E id \in KnownIds : markNotificationAsRead(id)

DocumentOps ==
  \/ \E c \in Cnics, o \in Outcomes : createDocument(c, o.enq, o.crash)
  \/ \E id \in KnownIds, c \in Cnics, o \in Outcomes :
        updateDocument([id |-> id, clientCnic |-> c, lastModified |-> 0], o.enq, o.crash)
  \/ \E id \in KnownIds, o \in Outcomes : deleteDocument(id, o.enq, o.crash)

DeleteClientOps ==
  \/ \E id \in IdsOf(clients) \cup ForeignIds : deleteClientBegin(id)
  \/ deleteClientGet
  \/ deleteClientCursor
  \/ deleteClientCommit
  \/ deleteClientAbort
  \/ \E ok \in BOOLEAN : deleteClientFromFirebase(ok)

Next ==
  \/ NotificationOps
  \/ UserOps
  \/ ClientOps
  \/ ReceiptOps
  \/ ExpenseOps
  \/ DocumentOps
  \/ DeleteClientOps
  \/ \E ok \in BOOLEAN : Drain(ok)

Spec == Init /\ [][Next]_vars

\* ------------------------------------------------ a device with history
\* the stores of a device that was used before: clients, receipts and vault
\* documents of earlier sessions, all of them drained to the remote
UniqueIds(S) == \A r1, r2 \in S : r1.id = r2.id => r1 = r2
UniqueCnics(S) == \A r1, r2 \in S : r1.cnic = r2.cnic => r1 = r2
UniqueUsernames(S) == \A r1, r2 \in S : r1.username = r2.username => r1 = r2

\* the client and the cnic an earlier record belongs to
ClientCnic(id) == IF id % 2 = 1 THEN "c1" ELSE "c2"

EarlierClients ==
  SUBSET {[id |-> i, cnic |-> ClientCnic(i), lastModified |-> 0] : i \in ForeignIds}
EarlierReceipts ==
  SUBSET {[id |-> i, clientCnic |-> ClientCnic(i), lastModified |-> 0] : i \in ReceiptIds}
EarlierDocuments ==
  SUBSET {[id |-> i, clientCnic |-> ClientCnic(i), lastModified |-> 0] : i \in DocumentIds}

InitCascade ==
  /\ users = {} /\ expenses = {} /\ activities = {} /\ notifications = {}
  /\ clients \in EarlierClients
  /\ receipts \in EarlierReceipts
  /\ documents \in EarlierDocuments
  /\ outbox = <<>>
  /\ remote = [NoRecords EXCEPT !.clients = clients, !.receipts = receipts,
                                !.documents = documents]
  /\ nextId = 1
  /\ nCalls = 0
  /\ tx = Idle
  /\ sync = NoSync
  /\ last = [call |-> 0, op |-> "init", res |-> "resolved"]
  /\ nMut = 0
  /\ drained = FALSE
  /\ unconfirmed = {}
  /\ NoAmbient

NextCascade ==
  \/ DeleteClientOps
  \/ \E c \in Cnics, o \in Outcomes : createReceipt(c, o.enq, o.crash)

SpecCascade == InitCascade /\ [][NextCascade]_vars

\* ------------------------------------- a device next to other installations
\* what other installations left at the remote, and what a snapshot file may
\* hold: users and clients under foreign ids, MaxItems records at most
ForeignUsers ==
  {[id |-> 11, username |-> "admin", lastModified |-> 0],
   [id |-> 12, username |-> "admin", lastModified |-> 0],
   [id |-> 12, username |-> "bob", lastModified |-> 0]}
ForeignClients ==
  {[id |-> 11, cnic |-> "c1", lastModified |-> 0],
   [id |-> 12, cnic |-> "c1", lastModified |-> 0],
   [id |-> 12, cnic |-> "c2", lastModified |-> 0]}

UpTo(n, S) == {T \in SUBSET S : Cardinality(T) <= n}

Snapshots ==
  {[NoRecords EXCEPT !.users = U] : U \in UpTo(MaxItems, ForeignUsers)}
  \cup {[NoRecords EXCEPT !.clients = C] : C \in UpTo(MaxItems, ForeignClients)}

\* the remote keeps one record per path collection/id
RemoteStates == {r \in Snapshots : UniqueIds(r.users) /\ UniqueIds(r.clients)}

InitResync ==
  /\ users = {} /\ clients = {} /\ receipts = {} /\ expenses = {}
  /\ activities = {} /\ notifications = {} /\ documents = {}
  /\ outbox = <<>>
  /\ remote \in RemoteStates
  /\ nextId = 1
  /\ nCalls = 0
  /\ tx = Idle
  /\ sync = NoSync
  /\ last = [call |-> 0, op |-> "init", res |-> "resolved"]
  /\ nMut = 0
  /\ drained = FALSE
  /\ unconfirmed = {}
  /\ NoAmbient

BulkSteps ==
  \/ clearStore
  \/ \E name \in NextImports : bulkImport(name)

\* the bulk imports next to the handlers that write the stores with a unique
\* index, on a device whose queue takes every entry
BulkBudget == nCalls < MaxBulkCalls

NextResync ==
  \/ BulkSteps
  \/ BulkBudget /\ \E pulled \in BOOLEAN : syncFromFirebase(pulled)
  \/ BulkBudget /\ \E data \in Snapshots : importData(data)
  \/ BulkBudget /\ \E u \in Usernames : createUser(u, "resolved", FALSE)
  \/ BulkBudget /\ \E id \in KnownIds, u \in Usernames :
        updateUser([id |-> id, username |-> u, lastModified |-> 0], "resolved", FALSE)
  \/ BulkBudget /\ \E c \in Cnics : createClient(c, "resolved", FALSE)
  \/ BulkBudget /\ \E id \in KnownIds, c \in Cnics :
        updateClient([id |-> id, cnic |-> c, lastModified |-> 0], "resolved", FALSE)

SpecResync == InitResync /\ [][NextResync]_vars

\* ------------------------------------- several installations, one remote
\* installations A and B edited the same client while offline; this device is
\* the third one
Devices == {"A", "B"}
Stamps == 0..MaxStamp
\* the version of that client stamped t
SharedClient(t) == [id |-> 11, cnic |-> "c1", lastModified |-> t]
\* what a store or a remote collection holds of it: nothing or one version
Versions == {{}} \cup {{SharedClient(t)} : t \in Stamps}

\* how a push can go: written and acknowledged, written with the
\* acknowledgement lost (the entry is pushed again), or not written
PushOutcomes == {"acked", "unacked", "failed"}

\* syncClientToFirebase(client) on installation d: set(ref(rtdb,
\* `clients/${client.id}`), client)
syncClientToFirebase(d, outcome) ==
  /\ d \in DOMAIN peers /\ ~peers[d].pushed
  /\ remote' = IF outcome = "failed" THEN remote
               ELSE Push(remote, [type |-> "update", store |-> "clients",
                                  data |-> peers[d].data])
  /\ peers' = [peers EXCEPT ![d].pushed = (outcome = "acked")]
  /\ firebaseCall' = settled("syncClientToFirebase", outcome # "failed")
  /\ UNCHANGED <<stores, outbox, nextId, nCalls, tx, sync, last, nMut, drained,
                 unconfirmed, listed, localStorage, instances, housekeeping, auth>>

\* the merge of fetchClients: a remote client replaces the local client of
\* the same id, the other remote clients are appended
mergedClients(localClients, firebaseClients) ==
  {c \in localClients : \A fbClient \in firebaseClients : fbClient.id # c.id}
     \cup firebaseClients

\* getAllClientsFromFirebase: Object.values of what get(ref(rtdb, 'clients'))
\* read, [] when the collection is empty and [] when the read failed
getAllClientsFromFirebase(fetched) == IF fetched THEN remote.clients ELSE {}

\* fetchClients: the merge of the local clients with what
\* getAllClientsFromFirebase() returned
fetchClients(fetched) ==
  /\ listed' = mergedClients(clients, getAllClientsFromFirebase(fetched))
  /\ firebaseCall' = settled("getAllClientsFromFirebase", fetched)
  /\ UNCHANGED <<stores, outbox, remote, nextId, nCalls, tx, sync, last, nMut,
                 drained, unconfirmed, peers, localStorage, instances, housekeeping, auth>>

InitDevices ==
  /\ users = {} /\ receipts = {} /\ expenses = {}
  /\ activities = {} /\ notifications = {} /\ documents = {}
  /\ clients \in Versions
  /\ remote \in {[NoRecords EXCEPT !.clients = C] : C \in Versions}
  /\ outbox = <<>>
  /\ nextId = 1
  /\ nCalls = 0
  /\ tx = Idle
  /\ sync = NoSync
  /\ last = [call |-> 0, op |-> "init", res |-> "resolved"]
  /\ nMut = 0
  /\ drained = FALSE
  /\ unconfirmed = {}
  /\ \E t1, t2 \in Stamps :
        /\ t1 < t2
        /\ peers = [d \in Devices |->
                      [data |-> SharedClient(IF d = "A" THEN t1 ELSE t2), pushed |-> FALSE]]
  /\ listed = {} /\ localStorage = 0 /\ instances = <<>>
  /\ NoHousekeeping /\ firebaseCall = NoFirebaseCall /\ auth = NoAuth

NextDevices ==
  \/ \E d \in Devices, outcome \in PushOutcomes : syncClientToFirebase(d, outcome)
  \/ \E fetched \in BOOLEAN : fetchClients(fetched)
  \/ \E pulled \in BOOLEAN : syncFromFirebase(pulled)
  \/ BulkSteps

SpecDevices == InitDevices /\ [][NextDevices]_vars

\* ------------------------------------------------- the Clients component
\* handleUpdate: await db.updateClient(updatedClient), then
\* syncClientToFirebase(updatedClient) writes the client straight to the
\* remote; a failed remote write is logged and the handler goes on
handleUpdate(client, enq, crash, pushed) ==
  LET updatedClient == [client EXCEPT !.lastModified = Now]
      ok == ~crash /\ CnicUnique(clients, updatedClient)
  IN /\ CanCall /\ TxIdle
     /\ outbox' = addToSyncQueue(outbox, "update", "clients", updatedClient, enq)
     /\ clients' = IF ok THEN Put(clients, updatedClient) ELSE clients
     /\ remote' = IF ok /\ pushed
                    THEN Push(remote, [type |-> "update", store |-> "clients",
                                       data |-> client])
                    ELSE remote
     /\ firebaseCall' = IF ok THEN settled("syncClientToFirebase", pushed) ELSE firebaseCall
     /\ Finish("updateClient", Result(crash, ok),
               IF ok THEN {Mutation("update", "clients", client.id)} ELSE {})
     /\ UNCHANGED <<users, receipts, expenses, activities, notifications, documents,
                    nextId, tx, sync, drained, surroundings>>

NextClients ==
  \/ ClientOps
  \/ \E c \in clients, cnic \in Cnics, o \in Outcomes, pushed \in BOOLEAN :
        handleUpdate([c EXCEPT !.cnic = cnic], o.enq, o.crash, pushed)
  \/ \E ok \in BOOLEAN : Drain(ok)

SpecClients == Init /\ [][NextClients]_vars

\* Clients.handleSubmit: the form's client gets an id of the component's
\* making and goes to createClient, which stores it under an id of its own
\* (and adds the notification); the form's client is then pushed with
\* syncClientToFirebase.  A cnic the list already shows is turned down
handleSubmit(cnic, enq, crash, outcome) ==
  LET newId == nextId
      newClient == [id |-> newId, cnic |-> cnic]
      stored == [id |-> nextId + 1, cnic |-> cnic, lastModified |-> Now]
      notification == [id |-> nextId + 2, read |-> FALSE]
      ok == /\ ~crash
            /\ SameTransaction(KeyFree(clients, stored.id) /\ CnicUnique(clients, stored),
                               KeyFree(notifications, notification.id))
  IN /\ CanCall /\ TxIdle /\ nextId + 2 <= MaxId
     /\ \A c \in listed : c.cnic # cnic
     /\ nextId' = nextId + 3
     /\ outbox' = addToSyncQueue(outbox, "create", "clients", stored, enq)
     /\ clients' = IF ok THEN clients \cup {stored} ELSE clients
     /\ notifications' = IF ok THEN notifications \cup {notification} ELSE notifications
     /\ remote' = IF ok /\ outcome # "failed"
                    THEN Push(remote, [type |-> "create", store |-> "clients",
                                       data |-> newClient])
                    ELSE remote
     /\ firebaseCall' = IF ok THEN settled("syncClientToFirebase", outcome # "failed")
                                ELSE firebaseCall
     /\ Finish("handleSubmit", Result(crash, ok),
               IF ok THEN {Mutation("create", "clients", stored.id),
                           Mutation("create", "notifications", notification.id)}
                     ELSE {})
     /\ UNCHANGED <<users, receipts, expenses, activities, documents,
                    tx, sync, drained, surroundings>>

\* the client form next to the other client handlers, the list and the drain
NextSubmit ==
  \/ \E c \in Cnics, o \in Outcomes, outcome \in PushOutcomes :
        handleSubmit(c, o.enq, o.crash, outcome)
  \/ \E c \in Cnics, o \in Outcomes : createClient(c, o.enq, o.crash)
  \/ \E fetched \in BOOLEAN : fetchClients(fetched)
  \/ \E ok \in BOOLEAN : Drain(ok)

SpecSubmit == Init /\ [][NextSubmit]_vars

\* ---------------------------------------------------------- sync status
\* getSyncStatus(): firebaseSync.getSyncStatus(), the number of queued entries
getSyncStatus == [queued |-> Len(outbox)]

\* a device whose queue takes every entry, written to while pushes may fail
NextStatus ==
  \/ \E c \in Cnics : createClient(c, "resolved", FALSE)
  \/ \E c \in clients, cnic \in Cnics :
        updateClient([c EXCEPT !.cnic = cnic], "resolved", FALSE)
  \/ \E u \in Usernames : createUser(u, "resolved", FALSE)
  \/ \E ok \in BOOLEAN : Drain(ok)

\* connectivity comes back and pushes succeed: a push that succeeds is not
\* put off forever
SpecStatus == Init /\ [][NextStatus]_vars /\ WF_vars(Drain(TRUE))

\* -------------------------------------------------------- device identity
\* application instances (tabs) of one installation share its localStorage
Instances == {"tab1", "tab2"}
\* the methods that call getDeviceId
DeviceIdCallers == {"exportData", "updateLastSyncTime"}
NotCalling == [pc |-> "idle", caller |-> "none", deviceId |-> 0, returned |-> {}]

\* getDeviceId, first statement: localStorage.getItem('arkive-device-id')
getDeviceIdGetItem(i, caller) ==
  /\ i \in DOMAIN instances /\ instances[i].pc = "idle"
  /\ nCalls < MaxCalls
  /\ nCalls' = nCalls + 1
  /\ instances' = [instances EXCEPT ![i].pc = "got", ![i].caller = caller,
                                    ![i].deviceId = localStorage]
  /\ UNCHANGED <<stores, outbox, remote, nextId, tx, sync, last, nMut, drained,
                 unconfirmed, peers, listed, localStorage, housekeeping, firebaseCall, auth>>

\* getDeviceId, the rest: if (!deviceId) { deviceId = crypto.randomUUID();
\* localStorage.setItem(...) } return deviceId
getDeviceIdReturn(i) ==
  /\ i \in DOMAIN instances /\ instances[i].pc = "got"
  /\ LET fresh == instances[i].deviceId = 0
         deviceId == IF fresh THEN nextId ELSE instances[i].deviceId
     IN /\ fresh => nextId <= MaxId
        /\ nextId' = IF fresh THEN nextId + 1 ELSE nextId
        /\ localStorage' = IF fresh THEN deviceId ELSE localStorage
        /\ instances' = [instances EXCEPT ![i].pc = "idle", ![i].deviceId = 0,
                                          ![i].returned = @ \cup {deviceId}]
        /\ last' = [call |-> nCalls, op |-> instances[i].caller, res |-> "resolved"]
  /\ UNCHANGED <<stores, outbox, remote, nCalls, tx, sync, nMut, drained,
                 unconfirmed, peers, listed, housekeeping, firebaseCall, auth>>

\* a fresh installation, or one that has its device id, opened in two tabs
InitDeviceId ==
  /\ users = {} /\ clients = {} /\ receipts = {} /\ expenses = {}
  /\ activities = {} /\ notifications = {} /\ documents = {}
  /\ outbox = <<>>
  /\ remote = NoRecords
  /\ nextId = 1
  /\ nCalls = 0
  /\ tx = Idle
  /\ sync = NoSync
  /\ last = [call |-> 0, op |-> "init", res |-> "resolved"]
  /\ nMut = 0
  /\ drained = FALSE
  /\ unconfirmed = {}
  /\ peers = <<>> /\ listed = {}
  /\ localStorage \in {0} \cup ForeignIds
  /\ instances = [i \in Instances |-> NotCalling]
  /\ NoHousekeeping /\ firebaseCall = NoFirebaseCall /\ auth = NoAuth

NextDeviceId ==
  \/ \E i \in Instances, caller \in DeviceIdCallers : getDeviceIdGetItem(i, caller)
  \/ \E i \in Instances : getDeviceIdReturn(i)

SpecDeviceId == InitDeviceId /\ [][NextDeviceId]_vars

\* ------------------------------------------- callers and the sync queue
NextCallers ==
  \/ UserOps
  \/ DocumentOps
  \/ \E id \in KnownIds, enq \in SettleOutcomes : logDocumentAccess(id, enq)

SpecCallers == Init /\ [][NextCallers]_vars

\* ------------------------------------------------------ snapshot export
\* Date.prototype.toJSON: JSON.stringify writes a Date as its ISO string.  A
\* Date is a natural number here; the string of the Date t is -(t + 1), a
\* value that is no Date
toISOString(t) == -(t + 1)

\* JSON.stringify of the records of one store: every Date field (of the
\* record fields kept here, lastModified) becomes a string
stringify(S) ==
  {IF "lastModified" \in DOMAIN r
     THEN [r EXCEPT !.lastModified = toISOString(@)] ELSE r : r \in S}

\* exportData: getAll of every store, then the snapshot with exportDate and
\* the device id, as JSON text (kept as the object JSON.parse makes of it);
\* getDeviceId() stores a fresh id when localStorage has none
exportData ==
  LET fresh == localStorage = 0
      deviceId == IF fresh THEN nextId ELSE localStorage
  IN /\ CanCall
     /\ fresh => nextId <= MaxId
     /\ exported' = [users |-> stringify(users), clients |-> stringify(clients),
                     receipts |-> stringify(receipts), expenses |-> stringify(expenses),
                     activities |-> stringify(activities),
                     notifications |-> stringify(notifications),
                     documents |-> stringify(documents),
                     exportDate |-> toISOString(Now), version |-> dbVersion,
                     deviceId |-> deviceId]
     /\ localStorage' = deviceId
     /\ nextId' = IF fresh THEN nextId + 1 ELSE nextId
     /\ Finish("exportData", "resolved", {})
     /\ UNCHANGED <<stores, outbox, remote, tx, sync, drained, peers, listed, instances,
                    database, lastSync, firebaseCall, auth>>

\* snapshots exported and imported on a device whose handlers fill the queue
NextSnapshot ==
  \/ BulkSteps
  \/ exportData
  \/ \E data \in Snapshots : importData(data)
  \/ exported # <<>> /\ importData(exported)
  \/ \E u \in Usernames, o \in Outcomes : createUser(u, o.enq, o.crash)

SpecSnapshot == Init /\ [][NextSnapshot]_vars

\* ------------------------------------------- creates that fail to commit
\* createClient when both adds succeed and the transaction then fails to
\* commit: checkComplete has resolved the call on the second onsuccess, the
\* handler listens to neither onabort nor oncomplete, and IndexedDB discards
\* both records
createClientAborted(cnic, enq) ==
  LET newClient == [id |-> nextId, cnic |-> cnic, lastModified |-> Now]
      notification == [id |-> nextId + 1, read |-> FALSE]
      clientAdded == KeyFree(clients, newClient.id) /\ CnicUnique(clients, newClient)
      notificationAdded == KeyFree(notifications, notification.id)
  IN /\ CanCall /\ TxIdle /\ nextId + 1 <= MaxId
     /\ clientAdded /\ notificationAdded
     /\ nextId' = nextId + 2
     /\ outbox' = addToSyncQueue(outbox, "create", "clients", newClient, enq)
     /\ Finish("createClient", "resolved", {})
     /\ UNCHANGED <<stores, remote, tx, sync, drained, ambient>>

\* createReceipt in the same case
createReceiptAborted(clientCnic, enq) ==
  LET newReceipt == [id |-> nextId, clientCnic |-> clientCnic, lastModified |-> Now]
      notification == [id |-> nextId + 1, read |-> FALSE]
  IN /\ CanCall /\ TxIdle /\ nextId + 1 <= MaxId
     /\ KeyFree(receipts, newReceipt.id) /\ KeyFree(notifications, notification.id)
     /\ nextId' = nextId + 2
     /\ outbox' = addToSyncQueue(outbox, "create", "receipts", newReceipt, enq)
     /\ Finish("createReceipt", "resolved", {})
     /\ UNCHANGED <<stores, remote, tx, sync, drained, ambient>>

\* the two creates that span two stores, with every way they can end
NextCommit ==
  \/ \E c \in Cnics, o \in Outcomes : createClient(c, o.enq, o.crash)
  \/ \E c \in Cnics, enq \in {"resolved", "rejected"} : createClientAborted(c, enq)
  \/ \E c \in Cnics, o \in Outcomes : createReceipt(c, o.enq, o.crash)
  \/ \E c \in Cnics, enq \in {"resolved", "rejected"} : createReceiptAborted(c, enq)

SpecCommit == Init /\ [][NextCommit]_vars

\* ----------------------------------------------------------- sync metadata
\* getLastSyncTime: the timestamp of the record 'last_sync', null (0) without it
getLastSyncTime == lastSync

\* updateLastSyncTime: put {id: 'last_sync', timestamp: new Date(), deviceId}
updateLastSyncTime ==
  LET fresh == localStorage = 0
  IN /\ CanCall
     /\ fresh => nextId <= MaxId
     /\ lastSync' = Now
     /\ localStorage' = IF fresh THEN nextId ELSE localStorage
     /\ nextId' = IF fresh THEN nextId + 1 ELSE nextId
     /\ Finish("updateLastSyncTime", "resolved", {})
     /\ UNCHANGED <<stores, outbox, remote, tx, sync, drained, peers, listed, instances,
                    database, exported, firebaseCall, auth>>

\* full resyncs on a device that records sync times and creates users
NextLastSync ==
  \/ BulkSteps
  \/ \E pulled \in BOOLEAN : syncFromFirebase(pulled)
  \/ updateLastSyncTime
  \/ \E u \in Usernames : createUser(u, "resolved", FALSE)

SpecLastSync == InitResync /\ [][NextLastSync]_vars

\* ------------------------------------------------- opening the database
\* versions the database on disk may have when the service is constructed:
\* none yet, the one of the earlier release, the current one, a later one
DiskVersions == {0, dbVersionV3, dbVersion, dbVersion + 1}

\* the stores and indexes of a database that was created at version v
SchemaOnDisk(v) ==
  CASE v = 0 -> NoStores
    [] v = dbVersionV3 -> upgrade(NoStores, DeclaredIndexesV3)
    [] OTHER -> onupgradeneeded(NoStores)

\* request.onsuccess of indexedDB.open(dbName, dbVersion), after the
\* onupgradeneeded of an older database has run: this.db is set, init resolves
initOnSuccess ==
  /\ database.initPromise = "pending" /\ database.version <= dbVersion
  /\ database' = [database EXCEPT
                    !.initPromise = "fulfilled", !.version = dbVersion,
                    !.schema = IF database.version < dbVersion
                                 THEN onupgradeneeded(@) ELSE @]
  /\ UNCHANGED <<stores, outbox, remote, nextId, nCalls, tx, sync, last, nMut, drained,
                 unconfirmed, peers, listed, localStorage, instances, lastSync, exported, firebaseCall, auth>>

\* request.onerror: the open or the upgrade failed, init rejects and the
\* database on disk stays as it was
initOnError ==
  /\ database.initPromise = "pending"
  /\ database' = [database EXCEPT !.initPromise = "rejected"]
  /\ UNCHANGED <<stores, outbox, remote, nextId, nCalls, tx, sync, last, nMut, drained,
                 unconfirmed, peers, listed, localStorage, instances, lastSync, exported, firebaseCall, auth>>

\* a call made while the open is in progress: it waits in ensureInitialized
awaitInit(op) ==
  /\ ensureInitialized = "waits"
  /\ database' = [database EXCEPT !.parked = @ \cup {op}]
  /\ UNCHANGED <<stores, outbox, remote, nextId, nCalls, tx, sync, last, nMut, drained,
                 unconfirmed, peers, listed, localStorage, instances, lastSync, exported, firebaseCall, auth>>

\* a call after the open failed: await this.initPromise throws, the call
\* rejects before it asks for a transaction
initFailedCall(op) ==
  /\ ensureInitialized = "throws" /\ nCalls < MaxCalls
  /\ database' = [database EXCEPT !.parked = @ \ {op}]
  /\ Finish(op, "rejected", {})
  /\ UNCHANGED <<stores, outbox, remote, nextId, tx, sync, drained,
                 peers, listed, localStorage, instances, lastSync, exported, firebaseCall, auth>>

OpenCallers == {"createUser", "updateUser", "deleteUser"}

\* the service right after its constructor: the open is in progress
InitOpen ==
  /\ users = {} /\ clients = {} /\ receipts = {} /\ expenses = {}
  /\ activities = {} /\ notifications = {} /\ documents = {}
  /\ outbox = <<>>
  /\ remote = NoRecords
  /\ nextId = 1
  /\ nCalls = 0
  /\ tx = Idle
  /\ sync = NoSync
  /\ last = [call |-> 0, op |-> "init", res |-> "resolved"]
  /\ nMut = 0
  /\ drained = FALSE
  /\ unconfirmed = {}
  /\ peers = <<>> /\ listed = {} /\ localStorage = 0 /\ instances = <<>>
  /\ \E v \in DiskVersions :
        database = [initPromise |-> "pending", version |-> v, parked |-> {},
                    schema |-> SchemaOnDisk(v)]
  /\ lastSync = 0 /\ exported = <<>> /\ firebaseCall = NoFirebaseCall /\ auth = NoAuth

NextOpen ==
  \/ initOnSuccess
  \/ initOnError
  \/ \E op \in OpenCallers : awaitInit(op)
  \/ \E op \in OpenCallers : initFailedCall(op)
  \/ UserOps

SpecOpen == InitOpen /\ [][NextOpen]_vars

\* ------------------------------------------------------ AuthService.register
MaxRegister == 2
Roles == {"admin", "employee"}
\* the usernames register is called with
Registrants == {"bob", "carol"}

\* the account AuthService.init creates when no user is named 'admin'
DefaultAdmin == [id |-> 1, username |-> "admin", role |-> "admin", lastModified |-> 0]

\* users.filter(u => u.role === 'admin').length
adminCount(S) == Cardinality({u \in S : u.role = "admin"})

\* !this.currentUser || this.currentUser.role !== 'admin' is false
currentUserIsAdmin == auth.currentUser # NoUser /\ auth.currentUser.role = "admin"

\* the register call c goes on to its next await
registerAwaits(c, pc) ==
  /\ auth' = [auth EXCEPT !.registering = (@ \ {c}) \cup {[c EXCEPT !.pc = pc]}]
  /\ last' = last

\* the register call c returns or throws
registerSettles(c, res) ==
  /\ auth' = [auth EXCEPT !.registering = @ \ {c}]
  /\ last' = [call |-> c.call, op |-> "register", res |-> res]

\* register(username, password, role) is called: it runs up to its first
\* await, db.getUserByUsername(username)
registerBegin(username, role) ==
  /\ CanCall /\ Cardinality(auth.registering) < MaxRegister
  /\ nCalls' = nCalls + 1
  /\ auth' = [auth EXCEPT !.registering = @ \cup
                 {[call |-> nCalls + 1, pc |-> "lookup", username |-> username,
                   role |-> role, madeBy |-> auth.currentUser.role]}]
  /\ UNCHANGED <<stores, outbox, remote, nextId, tx, sync, last, nMut, drained,
                 unconfirmed, peers, listed, localStorage, instances, housekeeping,
                 firebaseCall>>

\* getUserByUsername has answered: throw when the name is taken; for an admin
\* go on to await db.getAllUsers(); otherwise check the current user and go
\* on to await db.createUser
registerLookup(c) ==
  /\ c \in auth.registering /\ c.pc = "lookup"
  /\ IF \E u \in users : u.username = c.username
       THEN registerSettles(c, "rejected")
       ELSE IF c.role = "admin"
              THEN registerAwaits(c, "count")
              ELSE IF currentUserIsAdmin
                     THEN registerAwaits(c, "create")
                     ELSE registerSettles(c, "rejected")
  /\ UNCHANGED <<stores, outbox, remote, nextId, nCalls, tx, sync, nMut, drained,
                 unconfirmed, peers, listed, localStorage, instances, housekeeping,
                 firebaseCall>>

\* getAllUsers has answered: throw when two admins are stored, then check the
\* current user and go on to await db.createUser
registerCount(c) ==
  /\ c \in auth.registering /\ c.pc = "count"
  /\ IF adminCount(users) >= 2
       THEN registerSettles(c, "rejected")
       ELSE IF currentUserIsAdmin
              THEN registerAwaits(c, "create")
              ELSE registerSettles(c, "rejected")
  /\ UNCHANGED <<stores, outbox, remote, nextId, nCalls, tx, sync, nMut, drained,
                 unconfirmed, peers, listed, localStorage, instances, housekeeping,
                 firebaseCall>>

\* db.createUser({ username, password, role, createdAt }): the entry is handed
\* to the queue, then store.add runs; register goes on to await
\* db.createActivity
registerCreate(c, enq, crash) ==
  LET newUser == [id |-> nextId, username |-> c.username, role |-> c.role,
                  lastModified |-> Now]
      ok == ~crash /\ KeyFree(users, newUser.id) /\ UsernameUnique(users, newUser)
      muts == IF ok THEN {Mutation("create", "users", newUser.id)} ELSE {}
  IN /\ c \in auth.registering /\ c.pc = "create"
     /\ nextId <= MaxId /\ Len(outbox) < MaxQueue
     /\ nextId' = nextId + 1
     /\ outbox' = addToSyncQueue(outbox, "create", "users", newUser, enq)
     /\ users' = IF ok THEN users \cup {newUser} ELSE users
     /\ nMut' = nMut + Cardinality(muts)
     /\ unconfirmed' = unconfirmed \cup muts
     /\ IF ok THEN registerAwaits(c, "log") ELSE registerSettles(c, Result(crash, ok))
     /\ UNCHANGED <<clients, receipts, expenses, activities, notifications, documents,
                    remote, nCalls, tx, sync, drained, peers, listed, localStorage,
                    instances, housekeeping, firebaseCall>>

\* db.createActivity({ userId: this.currentUser.id, action: 'create_user', ... })
\* has stored the activity: register returns the user
registerLog(c) ==
  LET newActivity == [id |-> nextId]
      ok == KeyFree(activities, newActivity.id)
      muts == IF ok THEN {Mutation("create", "activities", newActivity.id)} ELSE {}
  IN /\ c \in auth.registering /\ c.pc = "log"
     /\ nextId <= MaxId
     /\ nextId' = nextId + 1
     /\ activities' = IF ok THEN activities \cup {newActivity} ELSE activities
     /\ nMut' = nMut + Cardinality(muts)
     /\ unconfirmed' = unconfirmed \cup muts
     /\ registerSettles(c, Result(FALSE, ok))
     /\ UNCHANGED <<users, clients, receipts, expenses, notifications, documents,
                    outbox, remote, nCalls, tx, sync, drained, peers, listed,
                    localStorage, instances, housekeeping, firebaseCall>>

\* after AuthService.init: the default admin is stored; the session found in
\* localStorage, if any, is the admin's
InitRegister ==
  /\ users = {DefaultAdmin}
  /\ clients = {} /\ receipts = {} /\ expenses = {}
  /\ activities = {} /\ notifications = {} /\ documents = {}
  /\ outbox = <<>>
  /\ remote = NoRecords
  /\ nextId = 2
  /\ nCalls = 0
  /\ tx = Idle
  /\ sync = NoSync
  /\ last = [call |-> 0, op |-> "init", res |-> "resolved"]
  /\ nMut = 0
  /\ drained = FALSE
  /\ unconfirmed = {}
  /\ peers = <<>> /\ listed = {} /\ localStorage = 0 /\ instances = <<>>
  /\ NoHousekeeping /\ firebaseCall = NoFirebaseCall
  /\ auth \in {[currentUser |-> u, registering |-> {}] : u \in {NoUser, DefaultAdmin}}

NextRegister ==
  \/ \E username \in Registrants, role \in Roles : registerBegin(username, role)
  \/ \E c \in auth.registering : registerLookup(c)
  \/ \E c \in auth.registering : registerCount(c)
  \/ \E c \in auth.registering, o \in Outcomes : registerCreate(c, o.enq, o.crash)
  \/ \E c \in auth.registering : registerLog(c)

SpecRegister == InitRegister /\ [][NextRegister]_vars

\* ------------------------------------------------------------------ claims
InOutbox(type, store, id) ==
  \E i \in 1..Len(outbox) :
     outbox[i].type = type /\ outbox[i].store = store /\ outbox[i].data.id = id

\* the step in which a call of op settles with res
Settles(op, res) == last'.call # last.call /\ last'.op = op /\ last'.res = res

\* C1: as long as no entry has been drained, the Outbox holds one entry per
\* committed mutation: its length is the number of store writes committed
PairingInvariant == ~drained => Len(outbox) = nMut

\* C2: a call whose write fails or is cut short by a crash leaves no entry
\* in the Outbox, and a step that commits a write leaves an entry for it
WriteAndEntryTogether ==
  [][ /\ (last'.call # last.call /\ last'.res \in {"rejected", "crashed"}) => outbox' = outbox
      /\ nMut' > nMut => Len(outbox') > Len(outbox)
    ]_vars

\* C3: every committed mutation the remote has not confirmed has its entry
\* in the Outbox
NoMutationLost == \A m \in unconfirmed : InOutbox(m.type, m.store, m.id)

CascadeDeleteOutbox ==
  (tx.pc = "resolved" /\ tx.found) =>
     /\ InOutbox("delete", "clients", tx.id)
     /\ \A r \in receipts \ tx.receipts : InOutbox("delete", "receipts", r.id)

\* C6: a step of deleteClient that changes a store removes the client and all
\* of its receipts at once and leaves their N+1 delete entries in the Outbox;
\* every other step of it changes no store and queues nothing
CascadeAtomicity ==
  [][ (tx.pc \in {"get", "cursor", "resolved"}) =>
        \/ /\ clients' = clients /\ receipts' = receipts /\ outbox' = outbox
        \/ /\ clients' = Delete(clients, tx.id)
           /\ receipts' = receipts \ CursorRange(receipts, tx.cnic)
           /\ \E i \in 1..Len(outbox') :
                 outbox'[i].type = "delete" /\ outbox'[i].store = "clients"
                 /\ outbox'[i].data.id = tx.id
           /\ \A r \in CursorRange(receipts, tx.cnic) :
                 \E i \in 1..Len(outbox') :
                    outbox'[i].type = "delete" /\ outbox'[i].store = "receipts"
                    /\ outbox'[i].data.id = r.id
    ]_vars

\* the store part of C6 alone: no step leaves the client without its receipts
\* deleted, or receipts deleted with the client remaining
CascadeAtomicityLocal ==
  [][ (tx.pc \in {"get", "cursor", "resolved"}) =>
        \/ /\ clients' = clients /\ receipts' = receipts
        \/ /\ clients' = Delete(clients, tx.id)
           /\ receipts' = receipts \ CursorRange(receipts, tx.cnic)
    ]_vars

\* C7: after deleteClient(id) resolved no record of any collection carries
\* the deleted client's cnic: no receipt and no vault document
CascadeAllDependents ==
  (tx.pc = "resolved" /\ tx.found) =>
     /\ \A r \in tx.receipts : r.clientCnic # tx.cnic
     /\ \A d \in documents : d.clientCnic # tx.cnic

\* C8: a createClient that is rejected (its cnic is the cnic of a client in
\* the store) leaves the clients store and the notifications store as they
\* were before the call
ConstraintViolationAborts ==
  [][ Settles("createClient", "rejected") =>
        clients' = clients /\ notifications' = notifications ]_vars

\* a createClient rejected for the cnic of an existing client
ConstraintViolationWitness ==
  /\ last.op = "createClient" /\ last.res = "rejected"
  /\ clients # {}

\* C9: no two records of a collection share an id, no two clients share a
\* cnic and no two users share a username
UniquenessInvariant ==
  /\ UniqueIds(users) /\ UniqueIds(clients) /\ UniqueIds(receipts)
  /\ UniqueIds(expenses) /\ UniqueIds(activities) /\ UniqueIds(notifications)
  /\ UniqueIds(documents)
  /\ UniqueCnics(clients)
  /\ UniqueUsernames(users)

\* a resync whose import of the clients was rejected because the remote holds
\* two clients of one cnic
UniquenessWitness ==
  /\ last.op = "syncFromFirebase" /\ last.res = "rejected"
  /\ \E r1, r2 \in remote.clients : r1 # r2 /\ r1.cnic = r2.cnic
  /\ sync.pc = "import" /\ "clients" \in sync.imported

\* C10: a syncFromFirebase whose pull fails rejects and changes no store
PullFailureChangesNothing ==
  [][ (Settles("syncFromFirebase", "rejected") /\ sync.pc = "idle") =>
        /\ stores' = stores
        /\ sync'.pc = "idle" ]_vars

\* a resync whose pull failed on a device that holds a client
PullFailureWitness ==
  /\ last.op = "syncFromFirebase" /\ last.res = "rejected"
  /\ sync.pc = "idle" /\ last.call = nCalls
  /\ clients # {} /\ notifications # {}

\* C11: a syncFromFirebase that fails, at the pull or at the insert of a
\* pulled record, leaves every store with the contents it had when the resync
\* started (no other handler having been called in between)
ResyncFailureLeavesStores ==
  [][ Settles("syncFromFirebase", "rejected") =>
        IF sync.pc = "idle" THEN stores' = stores
        ELSE nCalls = sync.call => stores' = sync.before ]_vars

\* C12: a full resync leaves, for an id held locally and remotely, the version
\* with the greater lastModified in the local store, the remote one on a tie;
\* and so does the client list where fetchClients merged the remote clients
Winner(l, r) == IF l.lastModified > r.lastModified THEN l ELSE r

LastWriteWins ==
  [][ /\ (Settles("syncFromFirebase", "resolved") /\ nCalls = sync.call) =>
           \A l \in sync.before[2], r \in sync.data.clients :
              l.id = r.id => Winner(l, r) \in clients'
      /\ (listed' # listed /\ remote.clients \subseteq listed') =>
           \A l \in clients, r \in remote.clients :
              l.id = r.id => Winner(l, r) \in listed'
    ]_vars

\* C13: once installations A and B have both pushed their version of the
\* client, the remote (what a third device's resync pulls) holds B's, the
\* later one, in whichever order the two pushes arrived
ConvergenceAcrossDevices ==
  (peers # <<>> /\ \A d \in DOMAIN peers : peers[d].pushed) =>
     remote.clients = {peers["B"].data}

\* C14: no step replaces the remote record of an id by a different record
\* whose lastModified is equal or older
RemoteNeverRegresses ==
  [][ \A r \in remote.clients, r2 \in remote'.clients :
         (r2.id = r.id /\ r2 # r) => r2.lastModified > r.lastModified ]_vars

\* C15: pushing an installation's record a second time, or deleting its id a
\* second time, leaves the remote as the first push or delete left it
PushIdempotent ==
  \A d \in DOMAIN peers :
     LET e == [type |-> "update", store |-> "clients", data |-> peers[d].data]
         del == [type |-> "delete", store |-> "clients", data |-> [id |-> peers[d].data.id]]
     IN /\ Push(Push(remote, e), e) = Push(remote, e)
        /\ Push(Push(remote, del), del) = Push(remote, del)
        /\ peers[d].data \in remote.clients => Push(remote, e) = remote

\* an installation whose push was written and not acknowledged, about to push
\* the same record again, next to an installation that has pushed
PushIdempotentWitness ==
  /\ peers # <<>>
  /\ \E d \in DOMAIN peers : ~peers[d].pushed /\ peers[d].data \in remote.clients
  /\ \E d \in DOMAIN peers : peers[d].pushed

\* C16: the entries of one record are queued in the order of its writes, no
\* create follows another entry of its record in the queue, and nothing of a
\* record is at the remote while its create is still waiting to be pushed
PerRecordOrder ==
  /\ \A i, j \in 1..Len(outbox) :
        (i < j /\ outbox[i].store = outbox[j].store
               /\ outbox[i].data.id = outbox[j].data.id) =>
           /\ outbox[j].type # "create"
           /\ outbox[i].data.lastModified <= outbox[j].data.lastModified
  /\ \A i \in 1..Len(outbox) :
        (outbox[i].type = "create" /\ outbox[i].store = "clients") =>
           KeyFree(remote.clients, outbox[i].data.id)

ResyncNeverWipes ==
  [][ (sync.op = "syncFromFirebase" /\ sync.pc # "idle") =>
        \A c \in clients :
           (c.lastModified > sync.call /\ InOutbox("create", "clients", c.id)) =>
              c \in clients' ]_vars

\* C19: every call of getDeviceId, in whichever application instance, returns
\* one and the same value, the one localStorage holds: no second device id is
\* ever minted
StableDeviceId ==
  \A i, j \in DOMAIN instances :
     \A a \in instances[i].returned, b \in instances[j].returned :
        a = b /\ a = localStorage

\* C20: how a mutating call settles depends on its local write alone: every
\* call settles, a call rejects only when its write hit a unique index (the
\* handlers of users), and logDocumentAccess, whose put cannot fail, resolves
\* whatever becomes of the entry handed to the queue
CallerSeesLocalWriteOnly ==
  [][ last'.call # last.call =>
        /\ last'.res \in {"resolved", "rejected", "crashed"}
        /\ last'.res = "rejected" => last'.op \in {"createUser", "updateUser"}
        /\ last'.op = "logDocumentAccess" => last'.res = "resolved" ]_vars

\* C21: every mutating call settles, whatever becomes of the entry it handed
\* to the queue, and a call that resolves after it handed over the entry of a
\* create or an update has written that record
LocalWriteNotBlocked ==
  [][ last'.call # last.call =>
        /\ last'.res # "pending"
        /\ (last'.res = "resolved" /\ Len(outbox') > Len(outbox)
               /\ outbox'[Len(outbox')].type # "delete"
               /\ outbox'[Len(outbox')].store = "documents") =>
              outbox'[Len(outbox')].data \in documents' ]_vars

\* a step of importData: the call, a round of its clearing loop or one of its
\* importStore calls
ImportDataStep == sync' # sync /\ "importData" \in {sync.op, sync'.op}

\* C22: exportData and importData leave the Outbox as it was, whatever it
\* holds, and importData changes nothing but the contents of the stores
SnapshotsBypassOutbox ==
  [][ /\ (ImportDataStep \/ (last'.call # last.call /\ last'.op = "exportData")) =>
           outbox' = outbox
      /\ ImportDataStep =>
           /\ remote' = remote /\ nextId' = nextId /\ unconfirmed' = unconfirmed
           /\ ambient' = ambient ]_vars

\* an export that followed an import, with an entry waiting in the Outbox
SnapshotsBypassOutboxWitness ==
  /\ last.op = "exportData" /\ outbox # <<>>
  /\ \E u \in exported.users : u.id \in ForeignIds

CreateOps == {"createUser", "createClient", "createReceipt", "createExpense",
              "createActivity", "createNotification", "createDocument"}
UpdateOps == {"updateUser", "updateClient", "updateReceipt", "updateExpense",
              "updateDocument"}

\* C23: a record that a create or an update stores carries the time of that
\* call as lastModified, and a create stores it under an id the collection
\* did not hold
AutoStamping ==
  [][ (last'.call # last.call /\ last'.op \in CreateOps \cup UpdateOps) =>
        \A i \in DOMAIN BulkStores :
          \A r \in StoreOf(BulkStores[i])' \ StoreOf(BulkStores[i]) :
            /\ "lastModified" \in DOMAIN r
            /\ r.lastModified = nCalls'
            /\ last'.op \in CreateOps => r.id \notin IdsOf(StoreOf(BulkStores[i])) ]_vars

\* a step in which a handler got hold of a store: a store, a transaction or a
\* bulk run changed, a request was committed, or a call resolved
StoreAccess ==
  \/ stores' # stores \/ tx' # tx \/ sync' # sync \/ nMut' # nMut
  \/ last'.call # last.call /\ last'.res # "rejected"

\* C24: no handler gets hold of a store before the open of the database has
\* succeeded, and by then the database on disk has the version of the service
MigrationBeforeAccess ==
  [][ StoreAccess =>
        database.initPromise = "fulfilled" /\ database.version = dbVersion ]_vars

\* a createUser that was called while an older database was being opened has
\* stored its user after the open
MigrationBeforeAccessWitness ==
  /\ database.initPromise = "fulfilled" /\ database.version = dbVersion
  /\ "createUser" \in database.parked
  /\ last.op = "createUser" /\ last.res = "resolved" /\ users # {}

\* C30: once the open of the database has failed it stays failed, every call
\* made afterwards rejects, and no store, transaction or queue entry changes
FailedOpenIsFatal ==
  [][ database.initPromise = "rejected" =>
        /\ database'.initPromise = "rejected"
        /\ stores' = stores /\ tx' = tx /\ sync' = sync /\ nMut' = nMut
        /\ outbox' = outbox
        /\ last'.call # last.call => last'.res = "rejected" ]_vars

\* the second call rejected after a failed open, with a call that was made
\* during the open still to be rejected
FailedOpenIsFatalWitness ==
  /\ database.initPromise = "rejected"
  /\ last.res = "rejected" /\ last.call = 2
  /\ database.parked # {}

\* C26: when syncFromFirebase resolves, getLastSyncTime returns a time not
\* earlier than the start of that call, and a syncFromFirebase that rejects
\* leaves the recorded time as it was
LastSyncTracksResync ==
  [][ (last' # last /\ last'.op = "syncFromFirebase") =>
        IF last'.res = "resolved"
          THEN getLastSyncTime' # 0 /\ getLastSyncTime' >= sync.call
          ELSE getLastSyncTime' = getLastSyncTime ]_vars

\* C25: when syncFromFirebase resolves, every store holds exactly the records
\* the pull returned for it
ResyncReplacesLocal ==
  [][ Settles("syncFromFirebase", "resolved") =>
        \A i \in DOMAIN BulkStores :
           StoreOf(BulkStores[i])' = sync.data[BulkStores[i]] ]_vars

\* the record and the notification a createClient or createReceipt that ends
\* in this step was to store: are they in their stores afterwards?
RecordStored ==
  \E r \in (IF last'.op = "createClient" THEN clients' ELSE receipts') : r.id = nextId
NotificationStored == \E n \in notifications' : n.id = nextId + 1

\* C27: when createClient or createReceipt ends, settled or stopped by a
\* crash, its record and its notification are both stored or both missing,
\* and a call that settled has rejected exactly when both are missing
MultiCreateAllOrNothing ==
  [][ (last'.call # last.call /\ last'.op \in {"createClient", "createReceipt"}) =>
        /\ RecordStored <=> NotificationStored
        /\ last'.res # "crashed" => (last'.res = "rejected" <=> ~RecordStored) ]_vars

\* C28: a createClient or createReceipt that resolves has its record and its
\* notification committed in the stores
ResolvedMeansCommitted ==
  [][ (last'.call # last.call /\ last'.op \in {"createClient", "createReceipt"}
         /\ last'.res = "resolved") =>
        RecordStored /\ NotificationStored ]_vars

\* C29: an update adds no record to a collection and removes none: after an
\* update call every store holds the ids it held before
RecordLifecycle ==
  [][ (last'.call # last.call
         /\ last'.op \in UpdateOps \cup {"markNotificationAsRead", "logDocumentAccess"}) =>
        \A i \in DOMAIN BulkStores :
           IdsOf(StoreOf(BulkStores[i])') = IdsOf(StoreOf(BulkStores[i])) ]_vars

\* C31: once init has completed, every declared store exists and has every
\* index declared for it, whether the database was created or upgraded
SchemaComplete ==
  database.initPromise = "fulfilled" =>
    \A s \in DOMAIN DeclaredIndexes :
       s \in DOMAIN database.schema /\ DeclaredIndexes[s] \subseteq database.schema[s]

\* C32: a push helper whose remote write or remove failed does not settle
\* the way it settles after a write that was made: its caller gets a rejection
FailedPushReported ==
  (firebaseCall.helper # "none" /\ ~firebaseCall.done) => firebaseCall.returned = "rejected"

\* C33: a getAllClientsFromFirebase whose read failed gives its caller an
\* error, and the client list that is built from it hides no local client
FailedPullIsFailure ==
  [][ (firebaseCall' # firebaseCall
         /\ firebaseCall'.helper = "getAllClientsFromFirebase" /\ ~firebaseCall'.done) =>
        /\ firebaseCall'.returned = "rejected"
        /\ clients' \subseteq listed' ]_vars

\* C34: when handleSubmit has stored the new client and its push was written,
\* the remote holds one record of that client (of its cnic), under the id
\* under which the clients store holds it
LocalRemoteSameId ==
  [][ (last'.call # last.call /\ last'.op = "handleSubmit" /\ last'.res = "resolved"
         /\ firebaseCall'.done) =>
        \A c \in clients' \ clients :
           /\ Cardinality({r \in remote'.clients : r.cnic = c.cnic}) = 1
           /\ \A r \in remote'.clients : r.cnic = c.cnic => r.id = c.id ]_vars

\* C35: a logDocumentAccess resolves or rejects, however the entry it handed
\* to the queue fares; when it resolves, the store holds the documents it
\* held, the logged one with the time of the call as lastModified
LogDocumentAccessSettles ==
  [][ (last'.call # last.call /\ last'.op = "logDocumentAccess") =>
        /\ last'.res \in {"resolved", "rejected"}
        /\ IdsOf(documents') = IdsOf(documents)
        /\ \A d \in documents' \ documents : d.lastModified = nCalls' ]_vars

\* C36: when an importData during which no other call was made resolves,
\* every store holds exactly the items the snapshot has for it
ImportDataReports ==
  [][ (Settles("importData", "resolved") /\ nCalls = sync.call) =>
        \A i \in DOMAIN BulkStores :
           StoreOf(BulkStores[i])' = sync.data[BulkStores[i]] ]_vars

\* C37: an importData of what exportData made of the stores as they are,
\* with no other call during the import, leaves every store as it was
SnapshotRoundTrip ==
  [][ (/\ Settles("importData", "resolved") /\ nCalls = sync.call
       /\ \A i \in DOMAIN BulkStores :
             sync.data[BulkStores[i]] = stringify(sync.before[i])) =>
        /\ stores' = sync.before
        /\ lastSync' = lastSync ]_vars

\* the running deleteClient was called with an id the clients store lacks
UnknownId ==
  /\ tx.pc \in {"get", "resolved"}
  /\ ~tx.found /\ KeyFree(tx.clients, tx.id)

\* C38: a deleteClient of an id that is not in the clients store resolves,
\* and no step of it changes the clients or the receipts store
DeleteUnknownIsNoOp ==
  [][ UnknownId =>
        /\ clients' = clients /\ receipts' = receipts
        /\ (tx.pc = "get" /\ tx'.pc # "idle") =>
              /\ last'.op = "deleteClient" /\ last'.res = "resolved"
              /\ last'.call = nCalls ]_vars

\* a deleteClient of an unknown id has resolved and committed on a device
\* that holds a client and receipts
DeleteUnknownWitness ==
  /\ tx.pc = "committed" /\ ~tx.found /\ KeyFree(clients, tx.id)
  /\ last.op = "deleteClient" /\ last.res = "resolved" /\ last.call = nCalls
  /\ clients # {} /\ receipts # {}

\* C39: whatever the interleaving of register calls, the users store never
\* holds more than two users with role 'admin', and a register call made
\* while the current user is not an admin adds no user
AdminLimit ==
  [][ /\ adminCount(users') <= 2
      /\ \A u \in users' \ users :
            \E c \in auth.registering :
               c.username = u.username /\ c.role = u.role /\ c.madeBy = "admin" ]_vars
====
